---- MODULE Spec2Model ----
(***************************************************************************)
(* Model of musicbot/voice_recognition.py: the per-speaker audio buffers   *)
(* and single-flight flush of RealtimeAudioSink, and the per-guild session *)
(* registry of VoiceListener.                                              *)
(*                                                                         *)
(* Granularity.  RealtimeAudioSink.write is one action (one call from the  *)
(* transport's decoder thread).  Code that runs on the asyncio event loop  *)
(* is one action per stretch between two awaits: a coroutine is only       *)
(* suspended at an await, so such a stretch is atomic with respect to the  *)
(* other coroutines.  _process_user_audio_realtime therefore is three      *)
(* steps: from its start to `await process_audio_chunk`, from there to     *)
(* `await self.callback`, and from there to its end.                       *)
(*                                                                         *)
(* Units.  Time is counted in ticks and audio in bytes of a scaled size:   *)
(* chunk_duration, min_audio_length and the deque's maxlen keep their role *)
(* but not their magnitude (5.0 s, 24000 bytes, 384000 frames).            *)
(*                                                                         *)
(* Text.  A str is a sequence of characters; a Hangul syllable is written  *)
(* as its romanised jamo ("myu" "jik" "bos" is the default bot name), and  *)
(* a command name is the sequence of its leading "!" characters followed   *)
(* by the rest of the name.                                                *)
(***************************************************************************)
EXTENDS Integers, Sequences, FiniteSets, TLC

\* ------------------------------------------------------------------ bounds
MaxTime == 2
MaxQueue == 2
MaxTasks == 2
MaxSinks == 2
MaxFrames == 2
MaxText == 4

\* ------------------------------------------------------------- constants
\* self.chunk_duration = 5.0 (seconds), here in ticks
chunk_duration == 1
\* self.min_audio_length = 24000 (bytes), here in scaled bytes
min_audio_length == 3
\* deque(maxlen=int(self.sample_rate * self.max_buffer_duration)), here in frames
maxlen == MaxFrames

\* Python's None, as a text and as an id
None == <<"None">>
NoId == "None"

\* the bot's own user id (self.bot.user.id) and the human speakers
bot_user == "bot"
Speakers == {"u1", "u2"}
Users == Speakers \cup {bot_user}
OneSpeaker == {"u1"}
Guilds == {"g1"}

\* audio frames handed to write(): byte strings of different length and content
Frames == { <<1>>, <<2, 2>> }
\* the longer frames only: two of them reach min_audio_length
LongFrames == { <<2, 2>> }

SinkIds == 1..MaxSinks
LockIds == 1..(MaxSinks * Cardinality(Users) + MaxTasks)

VARIABLES
    now,            \* time.time()
    sink,           \* the RealtimeAudioSink objects: id -> fields
    locks,          \* the asyncio.Lock objects: id -> locked()
    queue,          \* coroutines submitted with run_coroutine_threadsafe, not yet run
    tasks,          \* _process_user_audio_realtime coroutines suspended at an await
    loop_closed,    \* self.loop.is_closed()
    active_sinks,   \* VoiceListener.active_sinks: guild id -> sink
    connected,      \* voice_client.is_connected(), per guild
    recordings,     \* the transport's running recordings: guild and sink
    finishing,      \* recordings that ended, their finished callback not yet run
    detect,         \* the on_voice_detected coroutines suspended at an await, by lock
    call,           \* a call of a parser function: its arguments and its result
    last            \* what the last step did (observation only)

vars == <<now, sink, locks, queue, tasks, loop_closed,
          active_sinks, connected, recordings, finishing, detect, call, last>>

\* ------------------------------------------------------------ dictionaries
EmptyDict == [k \in {} |-> 0]

\* no parser function is being called
NoCall == [op |-> "none"]

DictSet(d, k, v) == [x \in (DOMAIN d) \cup {k} |-> IF x = k THEN v ELSE d[x]]

DictDel(d, k) == [x \in (DOMAIN d) \ {k} |-> d[x]]

\* ------------------------------------------------------------------ bytes
RECURSIVE Join(_)
\* b''.join(frames)
Join(frames) ==
    IF frames = <<>> THEN <<>> ELSE Head(frames) \o Join(Tail(frames))

\* a deque without maxlen: nothing is ever dropped
DequeAppendUnbounded(buf, data) == Append(buf, data)

\* deque.append on a deque with maxlen: a full deque drops its leftmost item
DequeAppend(buf, data) ==
    IF Len(buf) >= maxlen THEN Append(Tail(buf), data) ELSE Append(buf, data)

\* ------------------------------------------------------------------- text
LowerChar(c) == IF c = "B" THEN "b" ELSE c

RECURSIVE Lower(_)
\* str.lower()
Lower(t) == IF t = <<>> THEN <<>> ELSE <<LowerChar(Head(t))>> \o Lower(Tail(t))

\* sub in t
Contains(sub, t) ==
    \E i \in 0..(Len(t) - Len(sub)) : SubSeq(t, i + 1, i + Len(sub)) = sub

\* VoiceRecognitionHandler.bot_name = bot_name.lower(), for the default name
\* of load_bot_name_from_env
bot_name == Lower(<<"myu", "jik", "bos">>)

\* what recognize_google does with a snapshot: it raises (UnknownValueError,
\* RequestError, anything else) or returns a text
RecognizerOutcomes ==
    { [raises |-> TRUE, text |-> <<>>],
      [raises |-> FALSE, text |-> <<"B", "a">>],
      [raises |-> FALSE, text |-> <<"myu", "jik", "bos", "B">>] }

\* a process_audio_chunk that takes an error for the wake phrase
process_audio_chunkHearsBot(outcome) ==
    IF outcome.raises THEN bot_name ELSE Lower(outcome.text)

\* process_audio_chunk: the recognized text in lower case, None on any error
process_audio_chunk(outcome) ==
    IF outcome.raises THEN None ELSE Lower(outcome.text)

\* `if text:`
Truthy(text) == text # None /\ text # <<>>

\* `self.recognition_handler.bot_name in text.lower()`
BotNameDetected(text) == Contains(bot_name, Lower(text))

\* ---------------------------------------------------------------- parsing
\* the characters str.strip() removes
Whitespace == {" "}

RECURSIVE LStrip(_)
LStrip(t) ==
    IF t # <<>> /\ Head(t) \in Whitespace THEN LStrip(Tail(t)) ELSE t

RECURSIVE RStrip(_)
RStrip(t) ==
    IF t # <<>> /\ t[Len(t)] \in Whitespace THEN RStrip(SubSeq(t, 1, Len(t) - 1)) ELSE t

\* str.strip()
Strip(t) == RStrip(LStrip(t))

\* t.find(sub): the lowest index (from 0) at which sub occurs in t, -1 if none
Find(sub, t) ==
    IF Contains(sub, t)
    THEN CHOOSE i \in 0..(Len(t) - Len(sub)) :
             /\ SubSeq(t, i + 1, i + Len(sub)) = sub
             /\ \A j \in 0..(i - 1) : SubSeq(t, j + 1, j + Len(sub)) # sub
    ELSE -1

\* t[i:], a negative i counting from the end
SliceFrom(t, i) ==
    LET k == IF i < 0
             THEN (IF Len(t) + i < 0 THEN 0 ELSE Len(t) + i)
             ELSE (IF i > Len(t) THEN Len(t) ELSE i)
    IN  SubSeq(t, k + 1, Len(t))

\* t.startswith(prefix)
StartsWith(t, prefix) ==
    Len(prefix) <= Len(t) /\ SubSeq(t, 1, Len(prefix)) = prefix

\* VoiceCommandParser.command_map, in the order of the dict literal
command_map ==
    <<
       <<<<"jae", "saeng">>, <<"!", "play">>>>,
       <<<<"peul", "re", "i">>, <<"!", "play">>>>,
       <<<<"teul", "eo", "jwo">>, <<"play">>>>,
       <<<<"deul", "ryeo", "jwo">>, <<"play">>>>,
       <<<<"no", "rae", "teul", "eo", "jwo">>, <<"play">>>>,
       <<<<"eum", "ak", "teul", "eo", "jwo">>, <<"play">>>>,
       <<<<"il", "si", "jeong", "ji">>, <<"!", "pause">>>>,
       <<<<"meom", "chwo">>, <<"!", "pause">>>>,
       <<<<"jeong", "ji">>, <<"!", "pause">>>>,
       <<<<"meom", "chwo", "jwo">>, <<"!", "pause">>>>,
       <<<<"da", "si", "jae", "saeng">>, <<"!", "resume">>>>,
       <<<<"gye", "sok">>, <<"!", "resume">>>>,
       <<<<"da", "si">>, <<"!", "resume">>>>,
       <<<<"gye", "sok", "jae", "saeng">>, <<"!", "resume">>>>,
       <<<<"i", "eo", "seo">>, <<"!", "resume">>>>,
       <<<<"seu", "kip">>, <<"!", "skip">>>>,
       <<<<"geon", "neo", "ttwi", "gi">>, <<"!", "skip">>>>,
       <<<<"neom", "gyeo">>, <<"!", "skip">>>>,
       <<<<"da", "eum">>, <<"!", "skip">>>>,
       <<<<"da", "eum", "gok">>, <<"!", "skip">>>>,
       <<<<"neom", "gyeo", "jwo">>, <<"!", "skip">>>>,
       <<<<"kyu">>, <<"!", "queue">>>>,
       <<<<"dae", "gi", "yeol">>, <<"!", "queue">>>>,
       <<<<"mok", "rok">>, <<"!", "queue">>>>,
       <<<<"jae", "saeng", "mok", "rok">>, <<"!", "queue">>>>,
       <<<<"ji", "geum", "jae", "saeng">>, <<"!", "np">>>>,
       <<<<"hyeon", "jae", "gok">>, <<"!", "np">>>>,
       <<<<"ji", "geum", "gok">>, <<"np">>>>,
       <<<<"mwo", "na", "wa">>, <<"!", "np">>>>,
       <<<<"mwo", "teul", "go", "iss", "eo">>, <<"!", "np">>>>,
       <<<<"bol", "ryum">>, <<"!", "volume">>>>,
       <<<<"eum", "ryang">>, <<"!", "volume">>>>,
       <<<<"so", "ri">>, <<"!", "volume">>>>,
       <<<<"keu", "gi">>, <<"!", "volume">>>>,
       <<<<"syeo", "peul">>, <<"!", "shuffle">>>>,
       <<<<"seokk", "gi">>, <<"!", "shuffle">>>>,
       <<<<"raen", "deom">>, <<"!", "shuffle">>>>,
       <<<<"ban", "bok">>, <<"!", "repeat">>>>,
       <<<<"ri", "pi", "teu">>, <<"!", "repeat">>>>,
       <<<<"mu", "han", "ban", "bok">>, <<"!", "repeat">>>>,
       <<<<"na", "wa">>, <<"!", "disconnect">>>>,
       <<<<"jong", "ryo">>, <<"!", "disconnect">>>>,
       <<<<"kkeunh", "eo">>, <<"!", "disconnect">>>>,
       <<<<"geu", "man">>, <<"!", "disconnect">>>>,
       <<<<"na", "ga">>, <<"!", "disconnect">>>>,
       <<<<"kkeo", "jyeo">>, <<"!", "disconnect">>>>,
       <<<<"wa">>, <<"summon">>>>,
       <<<<"i", "ri", "wa">>, <<"summon">>>>,
       <<<<"o">>, <<"summon">>>>,
       <<<<"so", "hwan">>, <<"summon">>>>,
       <<<<"keul", "ri", "eo">>, <<"!", "clear">>>>,
       <<<<"jeon", "bu", "sak", "je">>, <<"!", "clear">>>>,
       <<<<"da", "ji", "wo">>, <<"!", "clear">>>>,
       <<<<"mok", "rok", "ji", "wo">>, <<"!", "clear">>>>
    >>

\* the command_map local to VoiceRecognitionHandler.parse_command
handler_command_map ==
    <<
       <<<<"jae", "saeng">>, <<"!", "play">>>>,
       <<<<"peul", "re", "i">>, <<"!", "play">>>>,
       <<<<"teul", "eo", "jwo">>, <<"!", "play">>>>,
       <<<<"deul", "ryeo", "jwo">>, <<"!", "play">>>>,
       <<<<"il", "si", "jeong", "ji">>, <<"!", "pause">>>>,
       <<<<"meom", "chwo">>, <<"!", "pause">>>>,
       <<<<"jeong", "ji">>, <<"!", "pause">>>>,
       <<<<"da", "si", "jae", "saeng">>, <<"!", "resume">>>>,
       <<<<"gye", "sok">>, <<"!", "resume">>>>,
       <<<<"da", "si">>, <<"!", "resume">>>>,
       <<<<"seu", "kip">>, <<"!", "skip">>>>,
       <<<<"geon", "neo", "ttwi", "gi">>, <<"!", "skip">>>>,
       <<<<"neom", "gyeo">>, <<"!", "skip">>>>,
       <<<<"da", "eum">>, <<"!", "skip">>>>,
       <<<<"kyu">>, <<"!", "queue">>>>,
       <<<<"dae", "gi", "yeol">>, <<"!", "queue">>>>,
       <<<<"mok", "rok">>, <<"!", "queue">>>>,
       <<<<"ji", "geum", "jae", "saeng">>, <<"!", "np">>>>,
       <<<<"hyeon", "jae", "gok">>, <<"!", "np">>>>,
       <<<<"ji", "geum", "gok">>, <<"!", "np">>>>,
       <<<<"bol", "ryum">>, <<"!", "volume">>>>,
       <<<<"eum", "ryang">>, <<"!", "volume">>>>,
       <<<<"so", "ri">>, <<"!", "volume">>>>,
       <<<<"syeo", "peul">>, <<"!", "shuffle">>>>,
       <<<<"seokk", "gi">>, <<"!", "shuffle">>>>,
       <<<<"ban", "bok">>, <<"!", "repeat">>>>,
       <<<<"ri", "pi", "teu">>, <<"!", "repeat">>>>,
       <<<<"na", "wa">>, <<"!", "disconnect">>>>,
       <<<<"jong", "ryo">>, <<"!", "disconnect">>>>,
       <<<<"kkeunh", "eo">>, <<"!", "disconnect">>>>,
       <<<<"geu", "man">>, <<"!", "disconnect">>>>
    >>

RECURSIVE InsertByLength(_, _)
\* the place of an item in a list sorted by falling phrase length: behind the
\* items that are as long or longer (sorted() is stable)
InsertByLength(item, sorted) ==
    IF sorted = <<>>
    THEN <<item>>
    ELSE IF Len(Head(sorted)[1]) >= Len(item[1])
    THEN <<Head(sorted)>> \o InsertByLength(item, Tail(sorted))
    ELSE <<item>> \o sorted

RECURSIVE SortedByLength(_)
\* sorted(items, key=lambda x: len(x[0]), reverse=True)
SortedByLength(items) ==
    IF items = <<>>
    THEN <<>>
    ELSE InsertByLength(items[Len(items)], SortedByLength(SubSeq(items, 1, Len(items) - 1)))

\* a table that is searched in the order of the dict literal
Unsorted(items) == items

\* the order in which parse_command tries the phrases
MatchOrder(items) == SortedByLength(items)

sorted_command_map == MatchOrder(command_map)

sorted_handler_command_map == MatchOrder(handler_command_map)

RECURSIVE FirstMatch(_, _)
\* the for loop of parse_command: the first item whose phrase command_text
\* starts with gives the command and, as args, the stripped rest; None if the
\* loop ends
FirstMatch(items, command_text) ==
    IF items = <<>>
    THEN None
    ELSE IF StartsWith(command_text, Head(items)[1])
    THEN <<Head(items)[2], Strip(SliceFrom(command_text, Len(Head(items)[1])))>>
    ELSE FirstMatch(Tail(items), command_text)

\* a check of the wake phrase that lets every text pass
BotNameMissingNever(self, text) == FALSE

\* `self.bot_name not in text`
BotNameMissing(self, text) == ~Contains(self.bot_name, text)

\* the text behind the bot name:
\* text[text.find(self.bot_name) + len(self.bot_name):].strip()
CommandText(self, text) ==
    Strip(SliceFrom(text, Find(self.bot_name, text) + Len(self.bot_name)))

\* VoiceRecognitionHandler.__init__, VoiceCommandParser.__init__
VoiceRecognitionHandler(name) == [bot_name |-> Lower(name)]

VoiceCommandParser(name) == [bot_name |-> Lower(name)]

\* the handler a VoiceListener is built with
recognition_handler == VoiceRecognitionHandler(<<"myu", "jik", "bos">>)

\* VoiceRecognitionHandler.parse_command(text)
parse_command(self, text) ==
    IF ~Truthy(text)
    THEN None
    ELSE LET lowered == Strip(Lower(text)) IN
         IF BotNameMissing(self, lowered)
         THEN None
         ELSE IF CommandText(self, lowered) = <<>>
         THEN None
         ELSE FirstMatch(sorted_handler_command_map, CommandText(self, lowered))

\* VoiceCommandParser.parse_command(text)
VoiceCommandParser_parse_command(self, text) ==
    IF ~Truthy(text)
    THEN None
    ELSE LET lowered == Strip(Lower(text)) IN
         IF BotNameMissing(self, lowered)
         THEN None
         ELSE IF CommandText(self, lowered) = <<>>
         THEN None
         ELSE FirstMatch(sorted_command_map, CommandText(self, lowered))

\* VoiceCommandParser.is_voice_command(text)
is_voice_command(self, text) ==
    IF ~Truthy(text) THEN FALSE ELSE Contains(self.bot_name, Strip(Lower(text)))

\* ------------------------------------------------------- the bot's commands
\* inspect.Parameter: its name, its kind and whether it has a default
Param(name, kind, has_default) == [name |-> name, kind |-> kind, has_default |-> has_default]

Positional(name) == Param(name, "POSITIONAL_OR_KEYWORD", FALSE)

\* the cmd_ methods of the bot, each with the parameters it declares (without
\* self), as inspect.signature gives them
cmd ==
    [ skip |-> <<>>,
      play |-> << Positional("message"), Positional("player"), Positional("channel"),
                  Positional("author"), Positional("permissions"),
                  Positional("leftover_args"), Positional("song_url") >>,
      nowplaying |-> << Positional("player"), Positional("guild"),
                        Positional("_player"), Positional("voice_channel"),
                        Positional("user_mentions"), Positional("channel_mentions"),
                        Param("index", "POSITIONAL_OR_KEYWORD", TRUE),
                        Param("option", "KEYWORD_ONLY", FALSE) >>,
      queue |-> << Positional("channel"), Positional("leftover_args") >>,
      summon |-> << Positional("guild"), Positional("author"), Positional("message") >> ]

\* self.bot.config.usealias and self.bot.aliases
usealias == TRUE

aliases == [ np |-> "nowplaying", pause |-> "stop", stop |-> "skip" ]

\* self.bot.config.command_prefix
command_prefix == "!"

\* getattr(self.bot, "cmd_" + command, None)
GetHandler(command) ==
    IF Len(command) = 1 /\ command[1] \in DOMAIN cmd THEN command[1] ELSE NoId

\* self.bot.aliases.get(command)
GetAlias(command) ==
    IF Len(command) = 1 /\ command[1] \in DOMAIN aliases THEN <<aliases[command[1]]>> ELSE None

\* a command name that keeps its marker
KeepMarker(command) == command

RECURSIVE LStripMarker(_)
\* command.lstrip("!")
LStripMarker(command) ==
    IF command # <<>> /\ Head(command) = "!" THEN LStripMarker(Tail(command)) ELSE command

\* a lookup that asks the alias table again and again
RECURSIVE ResolveThroughAliases(_)
ResolveThroughAliases(command) ==
    IF GetHandler(command) # NoId
    THEN [command |-> command, handler |-> GetHandler(command), lookups |-> 0]
    ELSE IF GetAlias(command) # None
    THEN [ResolveThroughAliases(GetAlias(command)) EXCEPT !.lookups = @ + 1]
    ELSE [command |-> command, handler |-> NoId, lookups |-> 1]

\* the handler of a command name: the cmd_ method of that name, else, if
\* aliases are in use, the cmd_ method of the name the alias table gives
Resolve(command) ==
    IF GetHandler(command) # NoId
    THEN [command |-> command, handler |-> GetHandler(command), lookups |-> 0]
    ELSE IF usealias /\ GetAlias(command) # None
    THEN [command |-> GetAlias(command), handler |-> GetHandler(GetAlias(command)),
          lookups |-> 1]
    ELSE [command |-> command, handler |-> NoId, lookups |-> IF usealias THEN 1 ELSE 0]

RECURSIVE Split(_)
\* args.split(): the runs of characters that are not whitespace
Split(t) ==
    LET rest == LStrip(t)
        n == IF \E i \in 1..Len(rest) : rest[i] \in Whitespace
             THEN (CHOOSE i \in 1..Len(rest) :
                       rest[i] \in Whitespace /\ \A j \in 1..(i - 1) : rest[j] \notin Whitespace) - 1
             ELSE Len(rest)
    IN  IF rest = <<>>
        THEN <<>>
        ELSE <<SubSeq(rest, 1, n)>> \o Split(SubSeq(rest, n + 1, Len(rest)))

\* the names of the parameters of a signature
Names(params) == { params[i].name : i \in DOMAIN params }

RECURSIVE Without(_, _)
\* params.pop(name, None): the parameters without the one of that name
Without(params, name) ==
    IF params = <<>>
    THEN <<>>
    ELSE IF Head(params).name = name
    THEN Tail(params)
    ELSE <<Head(params)>> \o Without(Tail(params), name)

\* a value in handler_kwargs
Val(x) == [val |-> x]

\* handler_kwargs holds args_list itself, not a copy of it
ArgsListRef == [ref |-> "args_list"]

\* a loop that reads the first token and leaves it in the list
PopNothing(args_list) == args_list

\* what `args_list.pop(0)` leaves of the list
Pop(args_list) == Tail(args_list)

RECURSIVE BindRest(_, _, _)
\* the loop over the parameters that are left (lines 713 to 735): b is the
\* state of the loop, its kwargs, its args_list and the parameters it has not
\* popped
BindRest(todo, b, args) ==
    IF todo = <<>>
    THEN b
    ELSE LET param == Head(todo)
             key == param.name
             popped == [b EXCEPT !.params = Without(@, key)]
         IN  IF param.kind = "VAR_POSITIONAL"
             THEN BindRest(Tail(todo),
                           [popped EXCEPT !.kwargs = DictSet(@, key, ArgsListRef)],
                           args)
             ELSE IF param.kind = "KEYWORD_ONLY" /\ ~param.has_default
             THEN BindRest(Tail(todo),
                           [popped EXCEPT !.kwargs =
                               DictSet(@, key, Val(IF b.args_list # <<>> THEN args ELSE <<>>))],
                           args)
             ELSE IF b.args_list = <<>> /\ param.has_default
             THEN BindRest(Tail(todo), popped, args)
             ELSE IF b.args_list # <<>>
             THEN BindRest(Tail(todo),
                           [popped EXCEPT !.kwargs = DictSet(@, key, Val(Head(b.args_list))),
                                          !.args_list = Pop(@)],
                           args)
             ELSE BindRest(Tail(todo), b, args)

\* the values handler_kwargs holds when the handler is called: the entries
\* that are args_list itself show what the loop has left of it
Deref(kwargs, args_list) ==
    [k \in DOMAIN kwargs |->
        IF "ref" \in DOMAIN kwargs[k] THEN Val(args_list) ELSE kwargs[k]]

\* handler(**handler_kwargs) raises TypeError before the body runs: a
\* parameter without default has no value, or a keyword names no parameter
\* that can be passed by keyword
CallRaisesTypeError(signature, kwargs) ==
    \/ \E i \in DOMAIN signature :
           /\ signature[i].kind \in {"POSITIONAL_OR_KEYWORD", "KEYWORD_ONLY"}
           /\ ~signature[i].has_default
           /\ signature[i].name \notin DOMAIN kwargs
    \/ /\ ~ \E i \in DOMAIN signature : signature[i].kind = "VAR_KEYWORD"
       /\ \E k \in DOMAIN kwargs :
              ~ \E i \in DOMAIN signature :
                    /\ signature[i].name = k
                    /\ signature[i].kind \in {"POSITIONAL_OR_KEYWORD", "KEYWORD_ONLY"}

\* ------------------------------------------------------------------ locks
\* the locks a sink table or a suspended coroutine still refers to
Referenced(snk, tks) ==
    UNION { { snk[s].processing_locks[u] : u \in DOMAIN snk[s].processing_locks } :
            s \in DOMAIN snk }
        \cup { t.lock : t \in tks }

\* a lock nobody refers to any more is gone
Collect(lk, snk, tks) == [l \in (DOMAIN lk) \cap Referenced(snk, tks) |-> lk[l]]

\* asyncio.Lock(): a new, unlocked lock object
NewLock == CHOOSE l \in LockIds \ DOMAIN locks : \A m \in LockIds \ DOMAIN locks : l <= m

\* faulty variants of Lock.locked(): never locked; locked when any lock is
LockedNever(lk, l) == FALSE
LockedGlobal(lk, l) == \E m \in DOMAIN lk : lk[m]

\* Lock.locked()
Locked(lk, l) == lk[l]

\* ------------------------------------------------------------------- sink
\* RealtimeAudioSink.__init__, and `sink.bot_id = ...` of start_listening
NewSink ==
    [ audio_buffers |-> EmptyDict,
      processing_locks |-> EmptyDict,
      last_process_time |-> EmptyDict,
      recording |-> TRUE,
      bot_id |-> bot_user ]

\* a cleanup that forgets the lock table
cleanupKeepsLocks(sk) ==
    [ sk EXCEPT !.audio_buffers = EmptyDict,
                !.last_process_time = EmptyDict,
                !.recording = FALSE ]

\* RealtimeAudioSink.cleanup
cleanup(sk) ==
    [ sk EXCEPT !.audio_buffers = EmptyDict,
                !.processing_locks = EmptyDict,
                !.last_process_time = EmptyDict,
                !.recording = FALSE ]

\* what a step did: the operation, the sink and speaker it was about, how it
\* ended, and the datum it handled (a frame, a snapshot, a text, a guild)
FlushEvent(op, s, user, outcome, arg, lock) ==
    [op |-> op, sink |-> s, user |-> user, outcome |-> outcome, arg |-> arg,
     lock |-> lock]

Event(op, s, user, outcome, arg) == FlushEvent(op, s, user, outcome, arg, 0)

\* `hasattr(self, 'bot_id') and user == self.bot_id`
IsBot(sk, user) == user = sk.bot_id

\* write, first part: the lazy creation of the speaker's three table entries
WithSpeaker(sk, user, lock) ==
    IF user \in DOMAIN sk.audio_buffers
    THEN sk
    ELSE [ sk EXCEPT !.audio_buffers = DictSet(@, user, <<>>),
                     !.processing_locks = DictSet(@, user, lock),
                     !.last_process_time = DictSet(@, user, now) ]

\* write, second part: self.audio_buffers[user].append(data)
WithFrame(sk, user, data) ==
    [ sk EXCEPT !.audio_buffers[user] = DequeAppend(@, data) ]

\* `current_time - self.last_process_time[user] >= self.chunk_duration`
FlushDue(sk, user) == now - sk.last_process_time[user] >= chunk_duration

\* `self.loop and not self.loop.is_closed()`
LoopReachable == ~loop_closed

\* `len(audio_bytes) < self.min_audio_length`
TooShort(audio_bytes) == Len(audio_bytes) < min_audio_length

\* entering `async with self.processing_locks[user_id]`
Acquire(lk, l) == [lk EXCEPT ![l] = TRUE]

\* an exit that leaves the lock held
ReleaseForgotten(lk, l) == lk

\* leaving `async with self.processing_locks[user_id]`
Release(lk, l) == [lk EXCEPT ![l] = FALSE]

\* ------------------------------------------------------------ the heap
\* the sinks something still refers to: the registry, a recording, a pending
\* finished callback, a suspended or a submitted coroutine
LiveSinks(act, rec, fin, tks, q) ==
    { act[g] : g \in DOMAIN act } \cup { r.sink : r \in rec } \cup { f.sink : f \in fin }
        \cup { t.sink : t \in tks } \cup { q[i].sink : i \in DOMAIN q }

Sweep(snk, live) == [s \in (DOMAIN snk) \cap live |-> snk[s]]

\* the state a step leaves: the objects nothing refers to any more are gone
Commit(snk, lk, tks, q, act, rec, fin) ==
    /\ tasks' = tks
    /\ queue' = q
    /\ active_sinks' = act
    /\ recordings' = rec
    /\ finishing' = fin
    /\ sink' = Sweep(snk, LiveSinks(act, rec, fin, tks, q))
    /\ locks' = Collect(lk, sink', tks)

CommitSink(snk, lk, tks, q) ==
    Commit(snk, lk, tks, q, active_sinks, recordings, finishing)

\* the flush coroutines of speaker `user` of sink `s` that hold a lock
InFlight(s, user) == { t \in tasks : t.sink = s /\ t.user = user }

\* the transport still has a thread that may hand frames to sink s
Receiving(s) ==
    \/ \E r \in recordings : r.sink = s
    \/ \E f \in finishing : f.sink = s

\* ------------------------------------------------------ RealtimeAudioSink
\* RealtimeAudioSink.write(data, user)
Write(s, user, data) ==
    /\ s \in DOMAIN sink
    /\ Receiving(s)
    /\ IF IsBot(sink[s], user)
       THEN /\ last' = Event("write", s, user, "bot", data)
            /\ CommitSink(sink, locks, tasks, queue)
       ELSE LET created == user \notin DOMAIN sink[s].audio_buffers
                sk1 == WithSpeaker(sink[s], user, NewLock)
                sk2 == WithFrame(sk1, user, data)
                full == Len(sk1.audio_buffers[user]) >= maxlen
                submit == FlushDue(sk2, user) /\ LoopReachable
            IN  /\ submit => Len(queue) < MaxQueue
                /\ CommitSink([sink EXCEPT ![s] = sk2],
                              IF created
                              THEN [l \in (DOMAIN locks) \cup {NewLock} |->
                                       IF l = NewLock THEN FALSE ELSE locks[l]]
                              ELSE locks,
                              tasks,
                              IF submit
                              THEN Append(queue, [sink |-> s, user |-> user])
                              ELSE queue)
                /\ last' = Event("write", s, user,
                                 IF full THEN "evict" ELSE "append", data)
    /\ UNCHANGED <<now, loop_closed, connected, call, detect>>

\* _process_user_audio_realtime(user_id), from its start to its first await:
\* the oldest submitted coroutine is run by the loop
FlushStart ==
    /\ ~loop_closed
    /\ queue # <<>>
    /\ LET s == Head(queue).sink
           user_id == Head(queue).user
           sk == sink[s]
       IN  IF user_id \notin DOMAIN sk.processing_locks
           THEN /\ last' = Event("flush", s, user_id, "no_lock", <<>>)
                /\ CommitSink(sink, locks, tasks, Tail(queue))
           ELSE LET l == sk.processing_locks[user_id] IN
                IF Locked(locks, l)
                THEN /\ last' = FlushEvent("flush", s, user_id, "locked", <<>>, l)
                     /\ CommitSink(sink, locks, tasks, Tail(queue))
                ELSE IF \/ user_id \notin DOMAIN sk.audio_buffers
                        \/ sk.audio_buffers[user_id] = <<>>
                THEN /\ last' = FlushEvent("flush", s, user_id, "empty", <<>>, l)
                     /\ CommitSink(sink, Release(Acquire(locks, l), l), tasks, Tail(queue))
                ELSE LET audio_bytes == Join(sk.audio_buffers[user_id]) IN
                     IF TooShort(audio_bytes)
                     THEN /\ last' = FlushEvent("flush", s, user_id, "short", audio_bytes, l)
                          /\ CommitSink(sink, Release(Acquire(locks, l), l), tasks,
                                        Tail(queue))
                     ELSE /\ Cardinality(tasks) < MaxTasks
                          /\ last' = FlushEvent("flush", s, user_id, "recognize", audio_bytes, l)
                          /\ CommitSink(sink, Acquire(locks, l),
                                        tasks \cup { [sink |-> s, user |-> user_id,
                                                      lock |-> l, pc |-> "recognizing",
                                                      text |-> None] },
                                        Tail(queue))
    /\ UNCHANGED <<now, loop_closed, connected, call, detect>>

\* _process_user_audio_realtime, from the return of process_audio_chunk to the
\* await of the callback, or to its end
RecognitionReturns(t, outcome) ==
    /\ ~loop_closed
    /\ t \in tasks
    /\ t.pc = "recognizing"
    /\ LET text == process_audio_chunk(outcome)
           s == t.sink
           user_id == t.user
           sk1 == [sink[s] EXCEPT !.last_process_time = DictSet(@, user_id, now)]
       IN  IF user_id \notin DOMAIN sk1.audio_buffers
           THEN \* KeyError in self.audio_buffers[user_id], caught by `except Exception`
                /\ last' = FlushEvent("recognized", s, user_id, "KeyError", text, t.lock)
                /\ CommitSink([sink EXCEPT ![s] = sk1], Release(locks, t.lock),
                              tasks \ {t}, queue)
           ELSE LET sk2 == [sk1 EXCEPT !.audio_buffers[user_id] = <<>>] IN
                IF Truthy(text) /\ BotNameDetected(text)
                THEN /\ last' = FlushEvent("recognized", s, user_id, "callback", text, t.lock)
                     /\ CommitSink([sink EXCEPT ![s] = sk2], locks,
                                   (tasks \ {t}) \cup
                                       {[t EXCEPT !.pc = "callback", !.text = text]},
                                   queue)
                ELSE /\ last' = FlushEvent("recognized", s, user_id, "dropped", text, t.lock)
                     /\ CommitSink([sink EXCEPT ![s] = sk2], Release(locks, t.lock),
                                   tasks \ {t}, queue)
    /\ UNCHANGED <<now, loop_closed, connected, call, detect>>

\* _process_user_audio_realtime, from the end of `await self.callback(...)`,
\* which returns or raises, to its end
CallbackReturns(t, raised) ==
    /\ ~loop_closed
    /\ t \in tasks
    /\ t.pc = "callback"
    /\ last' = FlushEvent("callback_done", t.sink, t.user,
                          IF raised THEN "raised" ELSE "returned", t.text, t.lock)
    /\ CommitSink(sink, Release(locks, t.lock), tasks \ {t}, queue)
    /\ UNCHANGED <<now, loop_closed, connected, call, detect>>

\* time passes
Tick ==
    /\ now < MaxTime
    /\ now' = now + 1
    /\ last' = Event("tick", 0, NoId, "done", <<>>)
    /\ UNCHANGED <<sink, locks, queue, tasks, loop_closed,
                   active_sinks, connected, recordings, finishing, call, detect>>

\* the event loop is closed: nothing submitted to it runs any more
CloseLoop ==
    /\ ~loop_closed
    /\ loop_closed' = TRUE
    /\ last' = Event("close", 0, NoId, "done", <<>>)
    /\ UNCHANGED <<now, sink, locks, queue, tasks,
                   active_sinks, connected, recordings, finishing, call, detect>>

\* ---------------------------------------------------------- VoiceListener
\* VoiceListener.is_listening(guild_id)
is_listening(guild_id) == guild_id \in DOMAIN active_sinks

\* start_listening without its guard
AlreadyListeningNever(guild_id) == FALSE

\* the guard of start_listening: `guild_id in self.active_sinks`
AlreadyListening(guild_id) == guild_id \in DOMAIN active_sinks

\* voice_client.start_recording raises when the client is already recording
StartRecordingRaises(guild_id) == \E r \in recordings : r.guild = guild_id

\* voice_client.stop_recording raises when the client is not recording
StopRecordingRaises(guild_id) == ~ \E r \in recordings : r.guild = guild_id

NewSinkId == CHOOSE s \in SinkIds \ DOMAIN sink : \A m \in SinkIds \ DOMAIN sink : s <= m

\* VoiceListener.start_listening(voice_client, text_channel); client is the
\* guild of the voice client, or None
StartListening(client) ==
    /\ ~loop_closed
    /\ IF client = NoId \/ ~connected[client]
       THEN /\ last' = Event("start_listening", 0, NoId, "no_client", <<client>>)
            /\ CommitSink(sink, locks, tasks, queue)
       ELSE IF AlreadyListening(client)
       THEN /\ last' = Event("start_listening", 0, NoId, "already", <<client>>)
            /\ CommitSink(sink, locks, tasks, queue)
       ELSE /\ SinkIds \ DOMAIN sink # {}
            /\ LET s == NewSinkId
                   snk == [x \in (DOMAIN sink) \cup {s} |->
                              IF x = s THEN NewSink ELSE sink[x]]
                   act == DictSet(active_sinks, client, s)
               IN  IF StartRecordingRaises(client)
                   THEN /\ last' = Event("start_listening", s, NoId, "raised", <<client>>)
                        /\ Commit(snk, locks, tasks, queue, act, recordings, finishing)
                   ELSE /\ last' = Event("start_listening", s, NoId, "started", <<client>>)
                        /\ Commit(snk, locks, tasks, queue, act,
                                  recordings \cup {[guild |-> client, sink |-> s]},
                                  finishing)
    /\ UNCHANGED <<now, loop_closed, connected, call, detect>>

\* VoiceListener.stop_listening(voice_client)
StopListening(client) ==
    /\ ~loop_closed
    /\ IF client = NoId
       THEN /\ last' = Event("stop_listening", 0, NoId, "no_client", <<client>>)
            /\ CommitSink(sink, locks, tasks, queue)
       ELSE IF connected[client] /\ StopRecordingRaises(client)
       THEN /\ last' = Event("stop_listening", 0, NoId, "raised", <<client>>)
            /\ CommitSink(sink, locks, tasks, queue)
       ELSE LET stopped == IF connected[client]
                           THEN { r \in recordings : r.guild = client }
                           ELSE {}
                registered == client \in DOMAIN active_sinks
                snk == IF registered
                       THEN [sink EXCEPT ![active_sinks[client]] = cleanup(@)]
                       ELSE sink
                act == IF registered THEN DictDel(active_sinks, client) ELSE active_sinks
            IN  /\ last' = Event("stop_listening",
                                 IF registered THEN active_sinks[client] ELSE 0,
                                 NoId, "done", <<client>>)
                /\ Commit(snk, locks, tasks, queue, act,
                          recordings \ stopped, finishing \cup stopped)
    /\ UNCHANGED <<now, loop_closed, connected, call, detect>>

\* finished_callback(sink, exc) of _create_finished_callback(guild_id, ...),
\* run by the loop after the recording f ended
FinishedCallback(f) ==
    /\ ~loop_closed
    /\ f \in finishing
    /\ LET snk == [sink EXCEPT ![f.sink] = cleanup(@)]
           act == IF f.guild \in DOMAIN active_sinks
                  THEN DictDel(active_sinks, f.guild)
                  ELSE active_sinks
       IN  /\ last' = Event("finished", f.sink, NoId, "done", <<f.guild>>)
           /\ Commit(snk, locks, tasks, queue, act, recordings, finishing \ {f})
    /\ UNCHANGED <<now, loop_closed, connected, call, detect>>

\* the transport ends the recording r by itself (its socket fails)
TransportStops(r) ==
    /\ r \in recordings
    /\ last' = Event("transport_stops", r.sink, NoId, "done", <<r.guild>>)
    /\ Commit(sink, locks, tasks, queue, active_sinks,
              recordings \ {r}, finishing \cup {r})
    /\ UNCHANGED <<now, loop_closed, connected, call, detect>>

\* the voice client of the guild loses its connection
Disconnect(guild_id) ==
    /\ connected[guild_id]
    /\ connected' = [connected EXCEPT ![guild_id] = FALSE]
    /\ last' = Event("disconnect", 0, NoId, "done", <<guild_id>>)
    /\ UNCHANGED <<now, sink, locks, queue, tasks, loop_closed,
                   active_sinks, recordings, finishing, call, detect>>

\* ---------------------------------------------------- on_voice_detected
\* what guild.fetch_member may do: raise, or give a member who is in a voice
\* channel or is not
FetchOutcomes ==
    { [raises |-> TRUE, member |-> [voice |-> FALSE]],
      [raises |-> FALSE, member |-> [voice |-> TRUE]],
      [raises |-> FALSE, member |-> [voice |-> FALSE]] }

\* what is sent to the text channel: the notice that the bot was called, the
\* command that was understood, the text of an exception, the response of a
\* handler (as an embed titled with the command if the bot uses embeds)
NoMessage == [kind |-> "none"]

Notice == [via |-> "send", kind |-> "notice"]

Echo(command, args) == [via |-> "send", kind |-> "echo", command |-> command, args |-> args]

Failure(error) == [via |-> "send", kind |-> "failure", error |-> error]

Forwarded(command, response, embeds) ==
    [via |-> "safe_send_message", kind |-> "response", embed |-> embeds,
     title |-> IF embeds THEN command ELSE <<>>, content |-> response.content]

\* what a handler may do: raise, return None, return a Response
HandlerOutcomes ==
    { [raises |-> TRUE, returns |-> "None"],
      [raises |-> FALSE, returns |-> "None"],
      [raises |-> FALSE, returns |-> "Response", content |-> "done", reply |-> FALSE] }

\* on_voice_detected(user_id, text) as it is called, waiting for fetch_member,
\* with the locals of _execute_command_directly (dispatch: whether it has been
\* called and how it ended; cmd_name: its `command`) and with what the
\* coroutine has done: the get_player and cmd_summon calls made, whether the
\* missing parameters were logged, the calls of the handler and what it
\* received, the exception at hand, the message of the awaited send, the
\* messages sent, and whether a send raised
NewDetect(text, text_channel) ==
    [ pc |-> "fetch_member", text_channel |-> text_channel, text |-> text,
      member |-> None, command |-> None, args |-> <<>>,
      dispatch |-> "none", cmd_name |-> None, handler |-> NoId,
      params |-> <<>>, kwargs |-> EmptyDict, args_list |-> <<>>,
      resolutions |-> 0, summons |-> 0, warned |-> FALSE,
      invoked |-> 0, received |-> EmptyDict, response |-> [returns |-> "unassigned"],
      error |-> NoId, sending |-> NoMessage, sent |-> <<>>, send_raised |-> FALSE ]

\* the coroutine awaits something, awaits a send, or ends
Await(d, pc) == [d EXCEPT !.pc = pc]

Send(d, pc, message) == [d EXCEPT !.pc = pc, !.sending = message]

End(d) == [d EXCEPT !.pc = "end", !.sending = NoMessage]

\* the awaited send has returned
Delivered(d) == [d EXCEPT !.sent = Append(@, d.sending), !.sending = NoMessage]

\* an `except` clause around the dispatch that reports nothing
CommandFailedSilently(d, error) == End([d EXCEPT !.error = error])

\* `except Exception as cmd_error` around the call of
\* _execute_command_directly: the error is logged and its text sent to the
\* text channel
CommandFailed(d, error) ==
    LET failed == [d EXCEPT !.error = error] IN
    IF d.text_channel THEN Send(failed, "failure", Failure(error)) ELSE End(failed)

\* an exception leaves _execute_command_directly
Raise(d, error) == CommandFailed([d EXCEPT !.dispatch = "raised"], error)

\* `if params.pop(name, None): handler_kwargs[name] = value`
BindName(d, name, value) ==
    IF name \in Names(d.params)
    THEN [d EXCEPT !.params = Without(@, name), !.kwargs = DictSet(@, name, value)]
    ELSE d

\* `response = await handler(**handler_kwargs)`, up to the handler's body
CallHandler(d) ==
    IF CallRaisesTypeError(cmd[d.handler], Deref(d.kwargs, d.args_list))
    THEN Raise([d EXCEPT !.warned = (d.params # <<>>)], "TypeError")
    ELSE [d EXCEPT !.pc = "handler", !.invoked = @ + 1, !.warned = (d.params # <<>>),
                   !.received = Deref(d.kwargs, d.args_list)]

\* _execute_command_directly from the _player parameter to the call of the
\* handler (lines 685 to 753)
BindTail(d) ==
    LET d1 == BindName(d, "_player", Val("player_in_guild"))
        d2 == BindName(d1, "permissions", Val("permissions"))
        d3 == BindName(d2, "user_mentions", Val(<<>>))
        d4 == BindName(d3, "channel_mentions", Val(<<>>))
        d5 == BindName(d4, "voice_channel", Val("voice_channel"))
        d6 == BindName(d5, "leftover_args", ArgsListRef)
        b == BindRest(d6.params,
                      [params |-> d6.params, kwargs |-> d6.kwargs, args_list |-> d6.args_list],
                      d6.args)
    IN  CallHandler([d6 EXCEPT !.params = b.params, !.kwargs = b.kwargs,
                               !.args_list = b.args_list])

\* the MinimalMessage of the message parameter
MinimalMessage(command, args) ==
    [ content |-> <<command_prefix>> \o command
                      \o (IF args # <<>> THEN <<" ">> \o args ELSE <<>>),
      channel |-> "text_channel", author |-> "member", guild |-> "guild" ]

\* a dispatcher that does not ask whether the member is in a voice channel
MemberInVoiceAlways(member) == TRUE

\* `member.voice and member.voice.channel`
MemberInVoice(member) == member.voice

\* _execute_command_directly from its start to its first await, its return
\* or its first exception (lines 567 to 683)
Dispatch(d) ==
    LET r == Resolve(LStripMarker(d.command)) IN
    IF r.handler = NoId
    THEN End([d EXCEPT !.cmd_name = r.command, !.dispatch = "returned"])
    ELSE LET d1 == [d EXCEPT !.cmd_name = r.command, !.handler = r.handler,
                             !.params = cmd[r.handler], !.args_list = Split(d.args),
                             !.dispatch = "running"]
             d2 == BindName(d1, "message", Val(MinimalMessage(r.command, d.args)))
             d3 == BindName(d2, "channel", Val("TypingWrapper"))
             d4 == BindName(d3, "author", Val("member"))
             d5 == BindName(d4, "guild", Val("guild"))
             d6 == [d5 EXCEPT !.params = Without(@, "player")]
         IN  IF "player" \in Names(d5.params)
             THEN IF MemberInVoice(d.member)
                  THEN Await([d6 EXCEPT !.resolutions = @ + 1], "get_player")
                  ELSE Raise(d6, "VoiceContextMissing")
             ELSE BindTail(d5)

\* on_voice_detected from parse_command to its next await or its end
Parsed(d) ==
    LET parsed == parse_command(recognition_handler, d.text) IN
    IF parsed = None
    THEN End(d)
    ELSE LET d1 == [d EXCEPT !.command = parsed[1], !.args = parsed[2]] IN
         IF d.text_channel
         THEN Send(d1, "echo", Echo(parsed[1], parsed[2]))
         ELSE CommandFailed(d1, "AttributeError")

\* the on_voice_detected coroutine of the flush t
Detecting(t) == t \in tasks /\ t.pc = "callback" /\ t.lock \in DOMAIN detect

\* the coroutine of t is suspended again, in state d
DetectAwaits(t, d) ==
    /\ detect' = DictSet(detect, t.lock, d)
    /\ last' = FlushEvent("detect", t.sink, t.user, d.pc, <<>>, t.lock)
    /\ UNCHANGED <<now, sink, locks, queue, tasks, loop_closed,
                   active_sinks, connected, recordings, finishing, call>>

\* the coroutine of t has ended in state d: on_voice_detected returns, and
\* _process_user_audio_realtime, with no await left, leaves its lock and ends
DetectEnds(t, d) ==
    /\ detect' = DictDel(detect, t.lock)
    /\ last' = FlushEvent("callback_done", t.sink, t.user, "returned", d, t.lock)
    /\ CommitSink(sink, Release(locks, t.lock), tasks \ {t}, queue)
    /\ UNCHANGED <<now, loop_closed, connected, call>>

\* the coroutine of t goes on to state d
Goes(t, d) == IF d.pc = "end" THEN DetectEnds(t, d) ELSE DetectAwaits(t, d)

\* `member = await guild.fetch_member(user_id)` returns a member or raises;
\* text_channel is the channel start_listening was called with, or None
FetchMemberReturns(t, text_channel, outcome) ==
    /\ ~loop_closed
    /\ t \in tasks
    /\ t.pc = "callback"
    /\ t.lock \notin DOMAIN detect
    /\ LET d == NewDetect(t.text, text_channel) IN
       IF outcome.raises
       THEN Goes(t, End([d EXCEPT !.error = "fetch_member"]))
       ELSE LET d1 == [d EXCEPT !.member = outcome.member] IN
            IF text_channel THEN Goes(t, Send(d1, "notice", Notice)) ELSE Goes(t, Parsed(d1))

\* `await text_channel.send(...)` of the notice returns or raises
NoticeSent(t, raises) ==
    /\ ~loop_closed
    /\ Detecting(t)
    /\ detect[t.lock].pc = "notice"
    /\ IF raises
       THEN Goes(t, End([detect[t.lock] EXCEPT !.error = "send", !.send_raised = TRUE]))
       ELSE Goes(t, Parsed(Delivered(detect[t.lock])))

\* `await text_channel.send(...)` of the command returns or raises; if it
\* returns, _execute_command_directly is called
EchoSent(t, raises) ==
    /\ ~loop_closed
    /\ Detecting(t)
    /\ detect[t.lock].pc = "echo"
    /\ IF raises
       THEN Goes(t, End([detect[t.lock] EXCEPT !.error = "send", !.send_raised = TRUE]))
       ELSE Goes(t, Dispatch(Delivered(detect[t.lock])))

\* a dispatcher that answers every failed player lookup with a summon
SummonableAlways(error) == TRUE

\* `"not in a voice channel" in str(e)`
Summonable(error) == error = "not in a voice channel"

\* `await self.bot.get_player(member.voice.channel)` returns a player, or
\* raises with "not in a voice channel" in its text, or raises something else
GetPlayerReturns(t, outcome) ==
    /\ ~loop_closed
    /\ Detecting(t)
    /\ detect[t.lock].pc = "get_player"
    /\ LET d == detect[t.lock] IN
       IF outcome = "player"
       THEN Goes(t, BindTail([d EXCEPT !.kwargs = DictSet(@, "player", Val("player"))]))
       ELSE IF Summonable(outcome)
       THEN Goes(t, Await([d EXCEPT !.error = outcome, !.summons = @ + 1], "summon"))
       ELSE Goes(t, Raise(d, outcome))

\* `await self.bot.cmd_summon(guild, member, None)` returns or raises
SummonReturns(t, raises) ==
    /\ ~loop_closed
    /\ Detecting(t)
    /\ detect[t.lock].pc = "summon"
    /\ LET d == detect[t.lock] IN
       IF raises
       THEN Goes(t, Raise(d, d.error))
       ELSE Goes(t, Await([d EXCEPT !.resolutions = @ + 1], "get_player_again"))

\* the second `await self.bot.get_player(...)` returns or raises
GetPlayerAgainReturns(t, raises) ==
    /\ ~loop_closed
    /\ Detecting(t)
    /\ detect[t.lock].pc = "get_player_again"
    /\ LET d == detect[t.lock] IN
       IF raises
       THEN Goes(t, Raise(d, d.error))
       ELSE Goes(t, BindTail([d EXCEPT !.kwargs = DictSet(@, "player", Val("player"))]))

\* `await handler(**handler_kwargs)` returns or raises; embeds is
\* self.bot.config.embeds
HandlerReturns(t, outcome, embeds) ==
    /\ ~loop_closed
    /\ Detecting(t)
    /\ detect[t.lock].pc = "handler"
    /\ LET d == detect[t.lock] IN
       IF outcome.raises
       THEN Goes(t, Raise(d, "handler"))
       ELSE IF outcome.returns = "None"
       THEN Goes(t, End([d EXCEPT !.response = outcome, !.dispatch = "returned"]))
       ELSE Goes(t, Send([d EXCEPT !.response = outcome], "forward",
                         Forwarded(d.cmd_name, outcome, embeds)))

\* `await self.bot.safe_send_message(...)` returns or raises
ResponseSent(t, raises) ==
    /\ ~loop_closed
    /\ Detecting(t)
    /\ detect[t.lock].pc = "forward"
    /\ IF raises
       THEN Goes(t, Raise([detect[t.lock] EXCEPT !.sending = NoMessage,
                                                         !.send_raised = TRUE],
                                  "safe_send_message"))
       ELSE Goes(t, End([Delivered(detect[t.lock]) EXCEPT !.dispatch = "returned"]))

\* `await text_channel.send(...)` of the failure returns or raises
FailureSent(t, raises) ==
    /\ ~loop_closed
    /\ Detecting(t)
    /\ detect[t.lock].pc = "failure"
    /\ IF raises
       THEN Goes(t, End([detect[t.lock] EXCEPT !.send_raised = TRUE]))
       ELSE Goes(t, End(Delivered(detect[t.lock])))

\* ------------------------------------------------------- specifications
\* One session from the return of a successful start_listening to its end:
\* the transport feeds the sink with the frames of one speaker and of the bot,
\* the loop runs the flushes, and the session is ended by stop_listening or by
\* the transport.
Init ==
    /\ now = 0
    /\ sink = [s \in {1} |-> NewSink]
    /\ locks = EmptyDict
    /\ queue = <<>>
    /\ tasks = {}
    /\ loop_closed = FALSE
    /\ active_sinks = [g \in {"g1"} |-> 1]
    /\ connected = [g \in Guilds |-> TRUE]
    /\ recordings = {[guild |-> "g1", sink |-> 1]}
    /\ finishing = {}
    /\ detect = EmptyDict
    /\ call = NoCall
    /\ last = Event("init", 0, NoId, "done", <<>>)

Next ==
    \/ \E s \in DOMAIN sink, user \in OneSpeaker \cup {bot_user}, data \in Frames :
           Write(s, user, data)
    \/ FlushStart
    \/ \E t \in tasks, outcome \in RecognizerOutcomes : RecognitionReturns(t, outcome)
    \/ \E t \in tasks, raised \in BOOLEAN : CallbackReturns(t, raised)
    \/ \E client \in Guilds : StopListening(client)
    \/ \E r \in recordings : TransportStops(r)
    \/ \E f \in finishing : FinishedCallback(f)
    \/ Tick
    \/ CloseLoop

Spec == Init /\ [][Next]_vars

\* The same session with two speakers, while it lasts.
NextSpeakers ==
    \/ \E s \in DOMAIN sink, user \in Speakers, data \in LongFrames : Write(s, user, data)
    \/ FlushStart
    \/ \E t \in tasks, outcome \in RecognizerOutcomes : RecognitionReturns(t, outcome)
    \/ \E t \in tasks, raised \in BOOLEAN : CallbackReturns(t, raised)
    \/ Tick

SpecSpeakers == Init /\ [][NextSpeakers]_vars

\* A VoiceListener from its construction: sessions are started and stopped,
\* recordings end, voice clients disconnect, and the transport feeds the sinks
\* (within one chunk_duration: no flush becomes due).
InitListener ==
    /\ now = 0
    /\ sink = EmptyDict
    /\ locks = EmptyDict
    /\ queue = <<>>
    /\ tasks = {}
    /\ loop_closed = FALSE
    /\ active_sinks = EmptyDict
    /\ connected = [g \in Guilds |-> TRUE]
    /\ recordings = {}
    /\ finishing = {}
    /\ detect = EmptyDict
    /\ call = NoCall
    /\ last = Event("init", 0, NoId, "done", <<>>)

NextListener ==
    \/ \E client \in Guilds \cup {NoId} : StartListening(client)
    \/ \E client \in Guilds \cup {NoId} : StopListening(client)
    \/ \E f \in finishing : FinishedCallback(f)
    \/ \E r \in recordings : TransportStops(r)
    \/ \E g \in Guilds : Disconnect(g)
    \/ \E s \in DOMAIN sink, user \in OneSpeaker, data \in LongFrames :
           Write(s, user, data)

SpecListener == InitListener /\ [][NextListener]_vars

\* what the recognizer makes of what is said to the bot
SpokenOutcomes ==
    { [raises |-> FALSE, text |-> <<"myu", "jik", "bos">>],
      [raises |-> FALSE, text |-> <<"myu", "jik", "bos", " ", "seu", "kip">>],
      [raises |-> FALSE, text |-> <<"myu", "jik", "bos", " ", "jae", "saeng">>],
      [raises |-> FALSE, text |-> <<"myu", "jik", "bos", " ", "jae", "saeng", " ", "B", " ", "a">>],
      [raises |-> FALSE, text |-> <<"myu", "jik", "bos", " ", "jeong", "ji">>],
      [raises |-> FALSE, text |-> <<"myu", "jik", "bos", " ", "kyu", " ", "B", " ", "a">>],
      [raises |-> FALSE, text |-> <<"myu", "jik", "bos", " ", "ji", "geum", "gok">>],
      [raises |-> FALSE, text |-> <<"myu", "jik", "bos", " ", "syeo", "peul">>] }

\* The session with one speaker who talks to the bot: the callback of the
\* flush is on_voice_detected, which parses what was said and dispatches it
\* to the bot's command handlers.
NextDispatch ==
    \/ \E s \in DOMAIN sink, user \in OneSpeaker, data \in LongFrames : Write(s, user, data)
    \/ FlushStart
    \/ \E t \in tasks, outcome \in SpokenOutcomes : RecognitionReturns(t, outcome)
    \/ \E t \in tasks, text_channel \in BOOLEAN, outcome \in FetchOutcomes :
           FetchMemberReturns(t, text_channel, outcome)
    \/ \E t \in tasks, raises \in BOOLEAN : NoticeSent(t, raises)
    \/ \E t \in tasks, raises \in BOOLEAN : EchoSent(t, raises)
    \/ \E t \in tasks, outcome \in {"player", "not in a voice channel", "other"} :
           GetPlayerReturns(t, outcome)
    \/ \E t \in tasks, raises \in BOOLEAN : SummonReturns(t, raises)
    \/ \E t \in tasks, raises \in BOOLEAN : GetPlayerAgainReturns(t, raises)
    \/ \E t \in tasks, outcome \in HandlerOutcomes, embeds \in BOOLEAN :
           HandlerReturns(t, outcome, embeds)
    \/ \E t \in tasks, raises \in BOOLEAN : ResponseSent(t, raises)
    \/ \E t \in tasks, raises \in BOOLEAN : FailureSent(t, raises)
    \/ Tick

SpecDispatch == Init /\ [][NextDispatch]_vars

\* ------------------------------------------------- the parsers, called alone
\* the pieces the texts handed to the parsers are made of: a blank, the bot
\* name, a capital letter, and the phrases of a few commands
Pieces ==
    { <<" ">>, <<"myu", "jik", "bos">>, <<"B">>, <<"da", "si">>, <<"jae", "saeng">>,
      <<"seu", "kip">>, <<"mok", "rok">> }

RECURSIVE TextsOf(_)
\* the texts of at most n pieces
TextsOf(n) ==
    IF n = 0
    THEN { <<>> }
    ELSE TextsOf(n - 1) \cup { t \o piece : t \in TextsOf(n - 1), piece \in Pieces }

\* the texts a parser is called with: str or None
Texts == TextsOf(MaxText) \cup { None }

\* the names the parsers are constructed with
BotNames == { <<"myu", "jik", "bos">>, <<"B">> }

\* the call of op with a text, made and returned
Call(op, result) ==
    /\ call.op = "input"
    /\ call' = [call EXCEPT !.op = op, !.result = result]
    /\ last' = Event(op, 0, NoId, "done", <<>>)
    /\ UNCHANGED <<now, sink, locks, queue, tasks, loop_closed,
                   active_sinks, connected, recordings, finishing, detect>>

CallHandlerParse ==
    Call("VoiceRecognitionHandler.parse_command",
         parse_command(VoiceRecognitionHandler(call.name), call.text))

CallParserParse ==
    Call("VoiceCommandParser.parse_command",
         VoiceCommandParser_parse_command(VoiceCommandParser(call.name), call.text))

CallIsVoiceCommand ==
    Call("VoiceCommandParser.is_voice_command",
         is_voice_command(VoiceCommandParser(call.name), call.text))

\* A parser, constructed with some bot name, is called with some text.
InitParser ==
    /\ now = 0
    /\ sink = EmptyDict
    /\ locks = EmptyDict
    /\ queue = <<>>
    /\ tasks = {}
    /\ loop_closed = FALSE
    /\ active_sinks = EmptyDict
    /\ connected = [g \in Guilds |-> TRUE]
    /\ recordings = {}
    /\ finishing = {}
    /\ detect = EmptyDict
    /\ call \in { [op |-> "input", name |-> name, text |-> text, result |-> None] :
                    name \in BotNames, text \in Texts }
    /\ last = Event("init", 0, NoId, "done", <<>>)

NextParser ==
    \/ CallHandlerParse
    \/ CallParserParse
    \/ CallIsVoiceCommand

SpecParser == InitParser /\ [][NextParser]_vars

\* ----------------------------------------------------------------- claims
\* the speaker's buffer, lock and last-flush timestamp in sink s
Buffer(s, user) == sink[s].audio_buffers[user]
TableLock(s, user) == sink[s].processing_locks[user]
HasSpeaker(s, user) == s \in DOMAIN sink /\ user \in DOMAIN sink[s].audio_buffers

\* C1: at most one flush (recognition plus callback) is in flight for a
\* speaker of a sink at any time, whatever the interleaving of write, flush
\* requests, recognition completion and cleanup.
C1_SingleFlight ==
    \A s \in DOMAIN sink : \A user \in Users : Cardinality(InFlight(s, user)) <= 1

\* C2: a speaker's buffer never holds more than maxlen frames, and a write to
\* a full buffer drops exactly the oldest frame and keeps the others in order.
C2_BoundedBuffer ==
    /\ [](\A s \in DOMAIN sink : \A user \in DOMAIN sink[s].audio_buffers :
             Len(Buffer(s, user)) <= maxlen)
    /\ [][\A s \in DOMAIN sink : \A user \in DOMAIN sink[s].audio_buffers :
             ( /\ last'.op = "write"
               /\ last'.sink = s
               /\ last'.user = user
               /\ last'.outcome # "bot"
               /\ Len(Buffer(s, user)) = maxlen )
             => sink'[s].audio_buffers[user] = Append(Tail(Buffer(s, user)), last'.arg)]_vars

\* a write has just evicted the oldest frame of a full buffer
C2_Witness ==
    /\ last.op = "write"
    /\ last.outcome = "evict"
    /\ Len(Buffer(last.sink, last.user)) = maxlen
    /\ Buffer(last.sink, last.user)[1] # Buffer(last.sink, last.user)[maxlen]

\* the oldest submitted flush request is for a speaker whose lock is held
HeadLockHeld ==
    /\ queue # <<>>
    /\ Head(queue).user \in DOMAIN sink[Head(queue).sink].processing_locks
    /\ locks[TableLock(Head(queue).sink, Head(queue).user)]

\* C3: a flush request that runs while the speaker's lock is held changes
\* neither the buffers nor the timestamps and starts no recognition.
C3_LockedFlushIsNoOp ==
    [][(HeadLockHeld /\ last'.op = "flush" /\ queue' = Tail(queue))
         => (sink' = sink /\ tasks' = tasks /\ locks' = locks)]_vars

\* a flush request has just been skipped because the lock was held, with
\* frames waiting in the buffer
C3_Witness ==
    /\ last.op = "flush"
    /\ last.outcome = "locked"
    /\ HasSpeaker(last.sink, last.user)
    /\ ~TooShort(Join(Buffer(last.sink, last.user)))

\* C4: a flush that finds a snapshot shorter than min_audio_length invokes no
\* recognition but clears the buffer and sets the last-flush timestamp to now.
C4_ShortFlushConsumed ==
    (last.op = "flush" /\ last.outcome = "short")
        => /\ Buffer(last.sink, last.user) = <<>>
           /\ sink[last.sink].last_process_time[last.user] = now
           /\ \A t \in tasks : t.lock # last.lock

\* C5: when recognition is invoked the buffer has already been cleared and the
\* last-flush timestamp already set to now.
C5_ClearedBeforeRecognition ==
    (last.op = "flush" /\ last.outcome = "recognize")
        => /\ Buffer(last.sink, last.user) = <<>>
           /\ sink[last.sink].last_process_time[last.user] = now

\* C6: a lock is held exactly while a flush that acquired it is in flight:
\* every way a flush ends leaves its lock released.
C6_LockReleased ==
    \A l \in DOMAIN locks : locks[l] <=> (\E t \in tasks : t.lock = l)

\* a flush whose callback raised has just ended and the speaker's lock is free
C6_Witness ==
    /\ last.op = "callback_done"
    /\ last.outcome = "raised"
    /\ last.sink \in DOMAIN sink
    /\ last.user \in DOMAIN sink[last.sink].processing_locks
    /\ TableLock(last.sink, last.user) = last.lock
    /\ ~locks[last.lock]

\* the flush of speaker `user` of sink s is waiting for its recognition call
Hung(s, user) == \E t \in InFlight(s, user) : t.pc = "recognizing"

\* the oldest submitted flush request is for speaker w of sink s, whose lock is
\* free and whose buffer holds a snapshot long enough to be recognized
ReadyToFlush(s, w) ==
    /\ ~loop_closed
    /\ queue # <<>>
    /\ Head(queue) = [sink |-> s, user |-> w]
    /\ HasSpeaker(s, w)
    /\ ~locks[TableLock(s, w)]
    /\ ~TooShort(Join(Buffer(s, w)))
    /\ Cardinality(tasks) < MaxTasks

\* C7: while one speaker's recognition call does not return, every write
\* still completes, and a flush of another speaker still acquires that
\* speaker's lock, starts its recognition and can complete.
C7_HungSpeakerIsolated ==
    \A s \in DOMAIN sink : \A user \in Speakers :
        Hung(s, user) =>
            /\ \A v \in Speakers : \A data \in LongFrames :
                   Len(queue) < MaxQueue => ENABLED Write(s, v, data)
            /\ \A w \in Speakers \ {user} :
                   /\ ReadyToFlush(s, w) =>
                          ENABLED ( /\ FlushStart
                                    /\ last'.outcome = "recognize"
                                    /\ last'.user = w )
                   /\ \A t \in InFlight(s, w) : \A outcome \in RecognizerOutcomes :
                          t.pc = "recognizing" => ENABLED RecognitionReturns(t, outcome)

\* speaker u2's flush has just started its recognition while u1's is waiting
C7_Witness ==
    /\ last.op = "flush"
    /\ last.outcome = "recognize"
    /\ last.user = "u2"
    /\ Hung(last.sink, "u1")
    /\ Hung(last.sink, "u2")

\* C8: a flush that was in flight when its session was stopped (its sink
\* cleaned up and its guild removed from the registry) does not invoke the
\* detection callback.
C8_StoppedFlushDiscarded ==
    ~ ( /\ last.op = "recognized"
        /\ last.outcome = "callback"
        /\ ~sink[last.sink].recording
        /\ \A g \in DOMAIN active_sinks : active_sinks[g] # last.sink
        /\ TableLock(last.sink, last.user) # last.lock )

\* the sinks of guild g's running recordings
Sessions(g) == { r.sink : r \in { x \in recordings : x.guild = g } }

\* C9: a guild never has more than one sink with a running recording, and
\* start_listening for a guild that is already registered creates no sink and
\* starts no recording.
C9_OneSessionPerGuild ==
    /\ [](\A g \in Guilds : Cardinality(Sessions(g)) <= 1)
    /\ [][\A g \in Guilds :
             (last'.op = "start_listening" /\ last'.arg = <<g>> /\ is_listening(g))
             => /\ DOMAIN sink' = DOMAIN sink
                /\ recordings' = recordings
                /\ active_sinks' = active_sinks]_vars

\* start_listening has just been refused for a guild with a running session
C9_Witness ==
    /\ last.op = "start_listening"
    /\ last.outcome = "already"
    /\ \E g \in Guilds : last.arg = <<g>> /\ Sessions(g) = {active_sinks[g]}

\* guild g has a registered sink whose recording is running
ActiveSession(g) == is_listening(g) /\ active_sinks[g] \in Sessions(g)

\* after stop_listening: no recording of the guild runs, the sink's buffer and
\* lock tables are empty, the guild is not registered
Stopped(g, s) ==
    /\ Sessions(g)' = {}
    /\ sink'[s].audio_buffers = EmptyDict
    /\ sink'[s].processing_locks = EmptyDict
    /\ ~is_listening(g)'

\* C10 as stated: stop_listening for a guild with an active session stops the
\* recording, empties the buffer and lock tables and unregisters the guild.
C10_StopListening ==
    [][\A g \in Guilds :
          (last'.op = "stop_listening" /\ last'.arg = <<g>> /\ ActiveSession(g))
          => Stopped(g, active_sinks[g])]_vars

\* C10, amended: the same, for a voice client that is still connected.
C10_StopListeningConnected ==
    [][\A g \in Guilds :
          ( /\ last'.op = "stop_listening"
            /\ last'.arg = <<g>>
            /\ ActiveSession(g)
            /\ connected[g] )
          => Stopped(g, active_sinks[g])]_vars

\* stop_listening has just ended the session of a connected client: its sink
\* is cleaned up and its recording is finishing
C10_Witness ==
    /\ last.op = "stop_listening"
    /\ last.outcome = "done"
    /\ \E g \in Guilds :
         /\ last.arg = <<g>>
         /\ connected[g]
         /\ [guild |-> g, sink |-> last.sink] \in finishing
         /\ ~is_listening(g)
    /\ sink[last.sink].audio_buffers = EmptyDict
    /\ ~sink[last.sink].recording

\* the flush requests of speaker `user` of sink s that are submitted to the
\* loop and have not run yet
Pending(s, user) == { i \in DOMAIN queue : queue[i] = [sink |-> s, user |-> user] }

\* C11: the flush requests of a speaker that are submitted and have not yet
\* run stay below a constant that does not depend on the frames written.  The
\* program has no such constant; the only limit here is the cap MaxQueue this
\* model puts on the loop's queue, so the statement is that the requests of a
\* speaker never fill the queue up to that cap.
C11_PendingFlushesBounded ==
    \A s \in DOMAIN sink : \A user \in Users : Cardinality(Pending(s, user)) < MaxQueue

\* C19: a frame written while the speaker's flush is in flight is still in
\* the buffer when that flush has completed: a write during the recognition
\* call, directly followed by the return of that call, leaves the written
\* frame as the newest frame of the buffer.
C19_InFlightFramesKept ==
    [][( /\ last.op = "write"
         /\ last.outcome \in {"append", "evict"}
         /\ Hung(last.sink, last.user)
         /\ last'.op = "recognized"
         /\ last'.sink = last.sink
         /\ last'.user = last.user
         /\ last'.outcome # "KeyError" )
       => /\ sink'[last.sink].audio_buffers[last.user] # <<>>
          /\ sink'[last.sink].audio_buffers[last.user]
                 [Len(sink'[last.sink].audio_buffers[last.user])] = last.arg]_vars

\* C20: when a flush invokes recognition, at least chunk_duration has elapsed
\* since the speaker's last-flush timestamp.
C20_RecognitionRateBounded ==
    (last.op = "flush" /\ last.outcome = "recognize")
        => now - sink[last.sink].last_process_time[last.user] >= chunk_duration

\* a parser function has been called and has returned
Returned == call.op \notin {"none", "input"}

\* the text of the call does not contain the wake phrase of the parser of the
\* call, both in lower case and the text trimmed
WakePhraseAbsent ==
    \/ call.text = None
    \/ ~Contains(Lower(call.name), Strip(Lower(call.text)))

\* C12: for a text that does not contain the wake phrase, parse_command of
\* VoiceCommandParser and of VoiceRecognitionHandler return None and
\* is_voice_command returns False.
C12_NoWakePhraseNoCommand ==
    (Returned /\ WakePhraseAbsent)
        => call.result = IF call.op = "VoiceCommandParser.is_voice_command"
                         THEN FALSE
                         ELSE None

\* parse_command has returned None for a text that begins with a command
\* phrase but does not contain the wake phrase
C12_Witness ==
    /\ call.op = "VoiceRecognitionHandler.parse_command"
    /\ call.text # None
    /\ WakePhraseAbsent
    /\ StartsWith(call.text, <<"seu", "kip">>)
    /\ Len(call.text) > 3
    /\ call.result = None

\* the trimmed text behind the first occurrence of the wake phrase
Remainder ==
    LET lowered == Strip(Lower(call.text))
        wake == Lower(call.name)
        first == CHOOSE i \in 1..Len(lowered) :
                     /\ SubSeq(lowered, i, i + Len(wake) - 1) = wake
                     /\ \A j \in 1..(i - 1) : SubSeq(lowered, j, j + Len(wake) - 1) # wake
    IN  Strip(SubSeq(lowered, first + Len(wake), Len(lowered)))

\* the entries of a command table whose phrase is a prefix of the remainder
PrefixEntries(table) == { k \in DOMAIN table : StartsWith(Remainder, table[k][1]) }

\* what the claim lets parse_command return for a text with the wake phrase
LongestPrefixResult(table) ==
    IF Remainder = <<>> \/ PrefixEntries(table) = {}
    THEN None
    ELSE LET k == CHOOSE k \in PrefixEntries(table) :
                      \A j \in PrefixEntries(table) : Len(table[j][1]) <= Len(table[k][1])
         IN  <<table[k][2],
               Strip(SubSeq(Remainder, Len(table[k][1]) + 1, Len(Remainder)))>>

\* C13: for a text with the wake phrase, parse_command returns the command of
\* the longest table phrase that is a prefix of the trimmed text behind the
\* first occurrence of the wake phrase, with the trimmed text behind that
\* phrase as the argument string, and None if that text is empty or no phrase
\* is a prefix of it.
C13_LongestPrefixWins ==
    (Returned /\ ~WakePhraseAbsent)
        => /\ call.op = "VoiceRecognitionHandler.parse_command"
                  => call.result = LongestPrefixResult(handler_command_map)
           /\ call.op = "VoiceCommandParser.parse_command"
                  => call.result = LongestPrefixResult(command_map)

\* the longer phrase has won over a shorter one that is a prefix of it, and
\* the rest of the text is the argument
C13_Witness ==
    /\ call.op = "VoiceCommandParser.parse_command"
    /\ call.text = <<"myu", "jik", "bos", "jae", "saeng", "mok", "rok", "B">>
    /\ call.result = << <<"!", "queue">>, <<"b">> >>

\* the on_voice_detected coroutines: the suspended ones and, after the step
\* that ended one, that one in its last state
Coroutines ==
    { detect[l] : l \in DOMAIN detect }
        \cup (IF last.op = "callback_done" THEN {last.arg} ELSE {})

\* _execute_command_directly has been called by the coroutine
Dispatched(d) == d.dispatch # "none"

\* the message m is among the messages the coroutine has sent
HasSent(d, m) == \E i \in DOMAIN d.sent : d.sent[i] = m

SkipText == <<"myu", "jik", "bos", " ", "seu", "kip">>

\* C14: with the wake phrase "myu jik bos", the text "myu jik bos seu kip" is
\* parsed to the command skip (the table writes it with the command marker
\* "!", which the dispatch strips) and an empty argument string, and its
\* dispatch resolves it to the skip handler and calls that handler, which
\* declares no parameters, exactly once and with no arguments, and hands the
\* Response the handler returns to the text channel.
C14_SkipEndToEnd ==
    /\ bot_name = <<"myu", "jik", "bos">>
    /\ parse_command(recognition_handler, SkipText)[1] = <<command_prefix, "skip">>
    /\ parse_command(recognition_handler, SkipText)[2] = <<>>
    /\ \A d \in Coroutines :
           (d.text = SkipText /\ Dispatched(d))
               => /\ d.handler = "skip"
                  /\ d.invoked = 1
                  /\ DOMAIN d.received = {}
                  /\ d.response.returns = "Response"
                         => \/ \E embeds \in BOOLEAN :
                                   \/ d.sending = Forwarded(<<"skip">>, d.response, embeds)
                                   \/ HasSent(d, Forwarded(<<"skip">>, d.response, embeds))
                            \/ d.send_raised

\* the skip command has been said, understood, dispatched, and the response
\* of its handler is the third message in the text channel
C14_Witness ==
    /\ last.op = "callback_done"
    /\ last.arg.text = SkipText
    /\ last.arg.dispatch = "returned"
    /\ last.arg.invoked = 1
    /\ Len(last.arg.sent) = 3
    /\ last.arg.sent[3].kind = "response"
    /\ ~last.arg.send_raised

\* the command name has no cmd_ method, and neither has the name the alias
\* table gives for it, if it gives one
Unregistered(command) ==
    LET name == LStripMarker(command)[1] IN
    /\ name \notin DOMAIN cmd
    /\ name \in DOMAIN aliases => aliases[name] \notin DOMAIN cmd

\* C15: the dispatch of a command name without a registered handler returns
\* normally: no handler is called, nothing is sent to the text channel beyond
\* what was sent before the dispatch, and no exception is raised.
C15_UnregisteredIsNoOp ==
    \A d \in Coroutines :
        (Dispatched(d) /\ Unregistered(d.command))
            => /\ d.pc = "end"
               /\ d.dispatch = "returned"
               /\ d.invoked = 0
               /\ d.resolutions = 0
               /\ d.summons = 0
               /\ d.error = NoId
               /\ d.sent = <<Notice, Echo(d.command, d.args)>>

\* a command whose alias names a command without handler has been dispatched
C15_Witness ==
    /\ last.op = "callback_done"
    /\ Dispatched(last.arg)
    /\ last.arg.command = <<"!", "pause">>
    /\ last.arg.cmd_name = <<"stop">>
    /\ last.arg.dispatch = "returned"

\* the handler of the dispatch declares a player parameter and the member is
\* in no voice channel
PlayerWithoutVoice(d) ==
    /\ Dispatched(d)
    /\ d.handler # NoId
    /\ "player" \in Names(cmd[d.handler])
    /\ ~d.member.voice

\* C16 as stated: such a dispatch fails with the voice-context error without
\* calling the handler, after exactly one summon.
C16_VoiceContextAfterSummon ==
    \A d \in Coroutines :
        PlayerWithoutVoice(d)
            => /\ d.dispatch = "raised"
               /\ d.error = "VoiceContextMissing"
               /\ d.invoked = 0
               /\ d.summons = 1

\* C16, amended: such a dispatch fails with the voice-context error without
\* calling the handler and without any summon or player lookup; a summon is
\* attempted, once, only for a member in a voice channel and after a player
\* lookup.
C16_VoiceContextWithoutSummon ==
    \A d \in Coroutines :
        /\ PlayerWithoutVoice(d)
               => /\ d.dispatch = "raised"
                  /\ d.error = "VoiceContextMissing"
                  /\ d.invoked = 0
                  /\ d.summons = 0
                  /\ d.resolutions = 0
        /\ d.summons <= 1
        /\ d.summons = 1
               => /\ d.member.voice
                  /\ d.resolutions >= 1

\* the dispatch of play for a member in no voice channel has failed and the
\* failure has been sent to the text channel
C16_Witness ==
    /\ last.op = "callback_done"
    /\ PlayerWithoutVoice(last.arg)
    /\ last.arg.handler = "play"
    /\ HasSent(last.arg, Failure("VoiceContextMissing"))

\* C17: when the binding leaves a parameter without default without a value,
\* the handler is not run and nothing about the failure is sent to the text
\* channel.
C17_MissingParameterSilent ==
    \A d \in Coroutines :
        ( /\ d.warned
          /\ \E i \in DOMAIN d.params : ~d.params[i].has_default )
            => /\ d.invoked = 0
               /\ d.sending.kind # "failure"
               /\ \A i \in DOMAIN d.sent : d.sent[i].kind # "failure"

\* C18: an exception raised by a handler is caught around the dispatch and
\* its text is sent to the text channel; on_voice_detected then returns, and
\* the flush ends with its lock released.
C18_HandlerErrorReported ==
    /\ \A d \in Coroutines :
           d.error = "handler"
               => /\ d.dispatch = "raised"
                  /\ \/ d.pc = "failure" /\ d.sending = Failure("handler")
                     \/ d.pc = "end" /\ HasSent(d, Failure("handler"))
                     \/ d.pc = "end" /\ d.send_raised
    /\ (last.op = "callback_done" /\ last.arg.error = "handler")
           => /\ last.outcome = "returned"
              /\ \A t \in tasks : t.lock # last.lock
              /\ last.lock \in DOMAIN locks => ~locks[last.lock]

\* a handler has raised, its error is in the text channel, and the speaker's
\* lock is free
C18_Witness ==
    /\ last.op = "callback_done"
    /\ last.arg.error = "handler"
    /\ last.arg.invoked = 1
    /\ HasSent(last.arg, Failure("handler"))
    /\ last.lock \in DOMAIN locks
    /\ ~locks[last.lock]

\* C21: when the recognizer raises (speech not understood, service not
\* available, any other error), the flush that waited for it ends there: the
\* detection callback is not called, no frame is left in the speaker's
\* buffer, the speaker's last-flush timestamp is the current time, and the
\* lock of the flush is free.
C21_NoTextDropsFlush ==
    [][\A t \in tasks : \A outcome \in RecognizerOutcomes :
           (outcome.raises /\ RecognitionReturns(t, outcome))
               => /\ last'.outcome \in {"dropped", "KeyError"}
                  /\ \A u \in tasks' : u.lock # t.lock
                  /\ t.lock \notin DOMAIN detect'
                  /\ t.lock \in DOMAIN locks' => ~locks'[t.lock]
                  /\ t.sink \in DOMAIN sink'
                         => /\ sink'[t.sink].last_process_time[t.user] = now'
                            /\ t.user \in DOMAIN sink'[t.sink].audio_buffers
                                   => sink'[t.sink].audio_buffers[t.user] = <<>>]_vars

\* the recognizer has raised for a snapshot of a running session: the flush
\* is dropped, the buffer is empty and the lock is free
C21_Witness ==
    /\ last.op = "recognized"
    /\ last.arg = None
    /\ last.outcome = "dropped"
    /\ HasSpeaker(last.sink, last.user)
    /\ Buffer(last.sink, last.user) = <<>>
    /\ sink[last.sink].recording
    /\ ~locks[TableLock(last.sink, last.user)]

\* the handler of the dispatch declares a player parameter and the member is
\* in a voice channel
PlayerWithVoice(d) ==
    /\ Dispatched(d)
    /\ d.handler # NoId
    /\ "player" \in Names(cmd[d.handler])
    /\ d.member.voice

\* the dispatch has ended with an exception and without a player
ResolutionFailed(d) == d.dispatch = "raised" /\ "player" \notin DOMAIN d.kwargs

\* C22: for a member in a voice channel, a player lookup that fails with "not
\* in a voice channel" is answered with one summon and, when the summon
\* returned, one second lookup; when the summon or the second lookup fails,
\* the error of the first lookup leaves the dispatch and the handler is not
\* called; a lookup that fails with another error lets that error leave the
\* dispatch without a summon.
C22_SummonOnceThenOriginalError ==
    \A d \in Coroutines :
        PlayerWithVoice(d)
            => /\ d.summons <= 1
               /\ d.resolutions \in 1..2
               /\ d.pc = "get_player" => d.summons = 0 /\ d.resolutions = 1
               /\ d.pc = "summon"
                      => /\ d.summons = 1
                         /\ d.resolutions = 1
                         /\ d.error = "not in a voice channel"
               /\ d.pc = "get_player_again"
                      => /\ d.summons = 1
                         /\ d.resolutions = 2
                         /\ d.error = "not in a voice channel"
               /\ "player" \in DOMAIN d.kwargs => d.resolutions = d.summons + 1
               /\ ResolutionFailed(d)
                      => /\ d.invoked = 0
                         /\ \/ d.summons = 1 /\ d.error = "not in a voice channel"
                            \/ d.summons = 0 /\ d.resolutions = 1 /\ d.error = "other"

\* the bot was in no voice channel, the summon returned, the second lookup
\* failed, and the error of the first lookup has been sent to the text channel
C22_Witness ==
    /\ last.op = "callback_done"
    /\ PlayerWithVoice(last.arg)
    /\ ResolutionFailed(last.arg)
    /\ last.arg.summons = 1
    /\ last.arg.resolutions = 2
    /\ last.arg.invoked = 0
    /\ HasSent(last.arg, Failure("not in a voice channel"))

\* the names the dispatcher fills from the context, not from the tokens
ContextNames ==
    {"message", "channel", "author", "guild", "player", "_player", "permissions",
     "user_mentions", "channel_mentions", "voice_channel", "leftover_args"}

\* the further positional parameters of a signature, in declaration order
Further(signature) ==
    SelectSeq(signature,
              LAMBDA p : p.name \notin ContextNames /\ p.kind = "POSITIONAL_OR_KEYWORD")

\* the handler of the coroutine declares leftover_args and has been called
CalledWithLeftover(d) ==
    /\ d.handler # NoId
    /\ "leftover_args" \in Names(cmd[d.handler])
    /\ d.invoked = 1

\* the further positional parameters that got a token got the next token each
TokensInOrder(d) ==
    LET tokens == Split(d.args)
        further == Further(cmd[d.handler])
    IN  \A i \in DOMAIN further :
            IF i <= Len(tokens)
            THEN /\ further[i].name \in DOMAIN d.received
                 /\ d.received[further[i].name] = Val(tokens[i])
            ELSE further[i].name \notin DOMAIN d.received

C24_StaleFinishedCallbackHarmless ==
    [][\A g \in Guilds :
          (is_listening(g) /\ ~is_listening(g)')
              => \/ last'.op = "stop_listening" /\ last'.arg = <<g>>
                 \/ /\ last'.op = "finished"
                    /\ last'.arg = <<g>>
                    /\ last'.sink = active_sinks[g]]_vars

\* C25: when start_recording raises inside start_listening, the guild is not
\* registered afterwards, and the guard of a later start_listening for it
\* does not refuse the call as already listening.
C25_FailedStartNotRegistered ==
    \A g \in Guilds :
        ( /\ last.op = "start_listening"
          /\ last.outcome = "raised"
          /\ last.arg = <<g>> )
            => /\ ~is_listening(g)
               /\ ~AlreadyListening(g)

\* C26: in every state of a sink its buffer table, its lock table and its
\* last-flush timestamp table have the same speakers.
C26_TablesShareSpeakers ==
    \A s \in DOMAIN sink :
        /\ DOMAIN sink[s].audio_buffers = DOMAIN sink[s].processing_locks
        /\ DOMAIN sink[s].audio_buffers = DOMAIN sink[s].last_process_time

\* a result of parse_command with the marker of its command left out
Canonical(result) ==
    IF result = None THEN None ELSE <<LStripMarker(result[1]), result[2]>>

\* C27: constructed with the same wake phrase and called with the same text,
\* VoiceCommandParser.parse_command and VoiceRecognitionHandler.parse_command
\* both return None, or return the same command (the marker "!" left out)
\* and the same argument string.
C27_ParsersAgree ==
    Returned
        => Canonical(VoiceCommandParser_parse_command(VoiceCommandParser(call.name),
                                                      call.text))
               = Canonical(parse_command(VoiceRecognitionHandler(call.name), call.text))

====
